---- MODULE Spec2Model ----
(***************************************************************************)
(* A model of srtools.py: the read-overlap engine (get_covered_range,      *)
(* overlaps, coverage, expressed_loci) and the consensus caller            *)
(* (convert_indecies, make_dot_queue, dot_from_queue, dot_indels,          *)
(* majority, consensus), the feature scan (in_features), the parsing and   *)
(* printing of the POS and CIGAR fields (Read.__init__, read_cigar,        *)
(* print_cigar) and the batching generators of Alignment (collect_reads,   *)
(* filter_consecutive_reads).                                              *)
(*                                                                         *)
(* A Read is the record [pos, cigar, seq]: the fields the modelled         *)
(* functions read.  A cigar is a sequence of <<n, o>> pairs, as read_cigar *)
(* builds it; a sequence of bases is a sequence of one-character strings.  *)
(***************************************************************************)
EXTENDS Integers, Sequences, FiniteSets, TLC

VARIABLES
    reads,               \* the read collection / read stream given to the call
    pc,                  \* position of the running call
    ret,                 \* value returned by a finished call
    exc,                 \* exception raised by the call ("" when none)
    consumed,            \* number of reads pulled from the stream so far
    locus,               \* expressed_loci: the local list `locus`
    yielded,             \* expressed_loci: the groups yielded so far, in order
    dotted,              \* consensus: the triples returned by dot_indels
    all_nucleotides,     \* consensus: the dict position -> list of bases
    consensus_sequence,  \* consensus: the list of voted columns
    nucleotides,         \* majority: the collection of bases voted on
    cutoff,              \* majority / consensus: the cutoff, as <<num, den>>
    features,            \* in_features: the list of Features, as records
    fields,              \* Read.__init__: the text of the pos and cigar fields
    batches              \* collect_reads: the generators it has yielded

vars == <<reads, pc, ret, exc, consumed, locus, yielded, dotted,
          all_nucleotides, consensus_sequence, nucleotides, cutoff,
          features, fields, batches>>

-----------------------------------------------------------------------------
(* Bounds of the model *)

MaxPos == 4
MaxMatch == 2
MaxReads == 3
MaxStream == 4
MaxGroup == 2
MaxShift == 3
MaxOps == 2
MaxOpLen == 2
MaxSeqLen == 2
MaxVotes == 4
MaxFeatures == 2
MaxPosText == 2
MaxCigarText == 4
MaxKey == 2
MaxBatches == 2

-----------------------------------------------------------------------------
(* Generic helpers *)

None == "None"

Min2(a, b) == IF a <= b THEN a ELSE b

Max2(a, b) == IF a >= b THEN a ELSE b

SetMin(S) == CHOOSE x \in S : \A y \in S : x <= y

SetMax(S) == CHOOSE x \in S : \A y \in S : x >= y

SeqsUpTo(S, n) == UNION {[1..k -> S] : k \in 0..n}

RECURSIVE Concat(_)
Concat(groups) ==
    IF groups = <<>> THEN <<>>
    ELSE Head(groups) \o Concat(Tail(groups))

-----------------------------------------------------------------------------
(* Read.get_covered_range *)

RECURSIVE SumMatch(_)
SumMatch(cigar) ==
    IF cigar = <<>> THEN 0
    ELSE (IF Head(cigar)[2] = "M" THEN Head(cigar)[1] ELSE 0)
         + SumMatch(Tail(cigar))

get_covered_range(read) ==
    LET first_base == read.pos
        last_base == read.pos + SumMatch(read.cigar) - 1
    IN  <<first_base, last_base>>

-----------------------------------------------------------------------------
(* overlaps *)

overlaps_strictly_after(read1, read2) ==
    LET x == get_covered_range(read1)
        y == get_covered_range(read2)
    IN  (x[1] < y[1] /\ y[1] <= x[2]) \/ (y[1] <= y[2] /\ y[2] <= x[2])

overlaps(read1, read2) ==
    LET x == get_covered_range(read1)
        y == get_covered_range(read2)
        x0 == x[1]
        x1 == x[2]
        y0 == y[1]
        y1 == y[2]
    IN  (x0 <= y0 /\ y0 <= x1) \/ (y0 <= y1 /\ y1 <= x1)

-----------------------------------------------------------------------------
(* coverage *)

RECURSIVE coverage_loop(_, _, _)
coverage_loop(rest, first, last) ==
    IF rest = <<>> THEN <<first, last>>
    ELSE LET x == get_covered_range(Head(rest))
             x0 == x[1]
             x1 == x[2]
         IN  coverage_loop(Tail(rest),
                           IF x0 < first THEN x0 ELSE first,
                           IF x1 > last THEN x1 ELSE last)

coverage_first_only(rs) ==
    IF rs = <<>> THEN <<0, 0>>
    ELSE get_covered_range(rs[1])

coverage(rs) ==
    IF rs = <<>> THEN <<0, 0>>
    ELSE LET r0 == get_covered_range(rs[1])
         IN  coverage_loop(Tail(rs), r0[1], r0[2])

-----------------------------------------------------------------------------
(* convert_indecies *)

RECURSIVE convert_loop(_, _)
convert_loop(cigar, index) ==
    IF cigar = <<>> THEN <<>>
    ELSE LET i == Head(cigar)[1]
             o == Head(cigar)[2]
         IN  <<<<index, i, o>>>> \o convert_loop(Tail(cigar), index + i)

convert_indecies(cigar) == convert_loop(cigar, 0)

-----------------------------------------------------------------------------
(* make_dot_queue.  A stripped read is the tuple <<seq, cigar, pos>>. *)

RECURSIVE own_entries(_)
own_entries(c_cigar) ==
    IF c_cigar = <<>> THEN <<>>
    ELSE LET e == Head(c_cigar)
         IN  (IF e[3] \in {"N", "D"} THEN <<<<e[1], e[2]>>>> ELSE <<>>)
             \o own_entries(Tail(c_cigar))

RECURSIVE other_entries(_, _)
other_entries(c_cigar, offset) ==
    IF c_cigar = <<>> THEN <<>>
    ELSE LET e == Head(c_cigar)
         IN  (IF e[3] = "I" THEN <<<<e[1] + offset, e[2]>>>> ELSE <<>>)
             \o other_entries(Tail(c_cigar), offset)

RECURSIVE make_dot_queue(_, _)
make_dot_queue(stripped_read, stripped_read_list) ==
    IF stripped_read_list = <<>> THEN <<>>
    ELSE LET s_seq == stripped_read[1]
             s_pos == stripped_read[3]
             read == Head(stripped_read_list)
             seq == read[1]
             cigar == read[2]
             pos == read[3]
             c_cigar == convert_indecies(cigar)
             offset == pos - s_pos
         IN  (IF seq = s_seq /\ pos = s_pos
              THEN own_entries(c_cigar)
              ELSE other_entries(c_cigar, offset))
             \o make_dot_queue(stripped_read, Tail(stripped_read_list))

-----------------------------------------------------------------------------
(* dot_from_queue.  seq[:i] and seq[i:] cut the string at SliceIndex(i):   *)
(* a negative i counts from the end, and the cut is clamped to the string. *)

SliceIndex(i, n) == IF i < 0 THEN Max2(i + n, 0) ELSE Min2(i, n)

Dots(n) == [k \in 1..n |-> "."]

RECURSIVE dot_loop(_, _)
dot_loop(seq, queue) ==
    IF queue = <<>> THEN seq
    ELSE LET i == Head(queue)[1]
             n == Head(queue)[2]
             k == SliceIndex(i, Len(seq))
         IN  dot_loop(SubSeq(seq, 1, k) \o Dots(n) \o SubSeq(seq, k + 1, Len(seq)),
                      Tail(queue))

dot_from_queue(stripped_read, queue) == dot_loop(stripped_read[1], queue)

-----------------------------------------------------------------------------
(* dot_indels *)

dot_indels(rs) ==
    LET stripped_reads == [k \in 1..Len(rs) |->
                              <<rs[k].seq, rs[k].cigar, rs[k].pos>>]
    IN  [k \in 1..Len(rs) |->
            LET sr == stripped_reads[k]
                queue == make_dot_queue(sr, stripped_reads)
                normalized_read == dot_from_queue(sr, queue)
            IN  <<normalized_read, sr[2], sr[3]>>]

-----------------------------------------------------------------------------
(* majority.  The cutoff is the fraction cut[1] / cut[2], cut[2] > 0:      *)
(* count / len > cutoff is count * cut[2] > cut[1] * len.                  *)

Count(s, x) == Cardinality({k \in 1..Len(s) : s[k] = x})

exceeds_or_equals(nucs, i, cut) ==
    Count(nucs, i) * cut[2] >= cut[1] * Len(nucs)

exceeds(nucs, i, cut) ==
    Count(nucs, i) * cut[2] > cut[1] * Len(nucs)

RECURSIVE majority_loop(_, _, _)
majority_loop(nucs, k, cut) ==
    IF k > Len(nucs) THEN "N"
    ELSE IF exceeds(nucs, nucs[k], cut) THEN nucs[k]
    ELSE majority_loop(nucs, k + 1, cut)

majority(nucs, cut) == majority_loop(nucs, 1, cut)

DefaultCutoff == <<1, 2>>

-----------------------------------------------------------------------------
(* consensus *)

add_nucleotide(d, index, nuc) ==
    IF index \in DOMAIN d
    THEN [d EXCEPT ![index] = Append(@, nuc)]
    ELSE [p \in (DOMAIN d) \cup {index} |->
             IF p = index THEN <<nuc>> ELSE d[p]]

RECURSIVE add_read(_, _, _)
add_read(d, seq, index) ==
    IF seq = <<>> THEN d
    ELSE add_read(add_nucleotide(d, index, Head(seq)), Tail(seq), index + 1)

vote_skipping(d, cut) ==
    LET keys == {p \in SetMin(DOMAIN d)..SetMax(DOMAIN d) : p \in DOMAIN d}
        ord[n \in 0..Cardinality(keys)] ==
            IF n = 0 THEN <<>>
            ELSE LET p == CHOOSE q \in keys :
                              Cardinality({r \in keys : r < q}) = n - 1
                 IN  Append(ord[n - 1], majority(d[p], cut))
    IN  ord[Cardinality(keys)]

vote(d, cut) ==
    LET lo == SetMin(DOMAIN d)
        hi == SetMax(DOMAIN d)
    IN  [k \in 1..(hi - lo + 1) |->
            LET position == lo + k - 1
            IN  IF position \in DOMAIN d
                THEN majority(d[position], cut)
                ELSE "N"]

IsBase(c) == c # "."

keep_dots(cols) == cols

strip_dots(cols) == SelectSeq(cols, IsBase)

-----------------------------------------------------------------------------
(* Inputs of the range functions: reads that matter through pos and cigar. *)
(* pos = 0 is an unmapped read; a cigar without an M op covers nothing.    *)

FillSeq(n, b) == [k \in 1..n |-> b]

RECURSIVE QueryLen(_)
QueryLen(cigar) ==
    IF cigar = <<>> THEN 0
    ELSE (IF Head(cigar)[2] \in {"M", "I"} THEN Head(cigar)[1] ELSE 0)
         + QueryLen(Tail(cigar))

RangeCigars ==
    {<<>>, << <<1, "M">>, <<1, "D">>, <<MaxMatch - 1, "M">> >>}
    \cup {<< <<n, "M">> >> : n \in 1..(MaxMatch - 1)}

RangeReads ==
    {[pos |-> p, cigar |-> c, seq |-> FillSeq(QueryLen(c), "A")] :
        p \in 0..MaxPos, c \in RangeCigars}

StreamReads ==
    {[pos |-> p, cigar |-> << <<n, "M">> >>, seq |-> FillSeq(n, "A")] :
        p \in 0..MaxPos, n \in 1..MaxMatch}

RECURSIVE SortedStreams(_)
SortedStreams(n) ==
    IF n = 0 THEN {<<>>}
    ELSE LET shorter == SortedStreams(n - 1)
         IN  shorter
             \cup UNION {{Append(s, r) :
                             r \in {q \in StreamReads :
                                       s = <<>> \/ s[Len(s)].pos <= q.pos}} :
                         s \in {t \in shorter : Len(t) = n - 1}}

ValidRange(read) ==
    get_covered_range(read)[1] <= get_covered_range(read)[2]

Covered(read) ==
    get_covered_range(read)[1] .. get_covered_range(read)[2]

-----------------------------------------------------------------------------
(* Values of the variables a specification does not use *)

NoGenerator == consumed = 0 /\ locus = <<>> /\ yielded = <<>>

NoConsensus ==
    /\ dotted = <<>>
    /\ all_nucleotides = <<>>
    /\ consensus_sequence = <<>>

NoMajority == nucleotides = <<>> /\ cutoff = <<1, 2>>

NoFeatures == features = <<>>

NoFields == fields = <<>>

NoBatches == batches = <<>>

-----------------------------------------------------------------------------
(* Calls of the pure range functions on drawn inputs *)

InitRanges ==
    /\ reads \in SeqsUpTo(RangeReads, MaxReads)
    /\ pc = "start"
    /\ ret = None
    /\ exc = ""
    /\ NoGenerator
    /\ NoConsensus
    /\ NoFeatures
    /\ NoFields
    /\ NoBatches
    /\ NoMajority

CallOverlaps ==
    /\ pc = "start"
    /\ Len(reads) = 2
    /\ ret' = overlaps(reads[1], reads[2])
    /\ pc' = "overlaps"
    /\ UNCHANGED <<reads, exc, consumed, locus, yielded, dotted,
                   all_nucleotides, consensus_sequence, nucleotides, cutoff,
                   features, fields, batches>>

CallCoverage ==
    /\ pc = "start"
    /\ ret' = coverage(reads)
    /\ pc' = "coverage"
    /\ UNCHANGED <<reads, exc, consumed, locus, yielded, dotted,
                   all_nucleotides, consensus_sequence, nucleotides, cutoff,
                   features, fields, batches>>

NextRanges == CallOverlaps \/ CallCoverage

SpecRanges == InitRanges /\ [][NextRanges]_vars

-----------------------------------------------------------------------------
(* expressed_loci: a generator pulled by its consumer, on a stream of      *)
(* reads in ascending order of position.  One step per pull of the for     *)
(* loop, one for the yield after the loop.                                 *)

InitLoci ==
    /\ reads \in SortedStreams(MaxStream)
    /\ pc = "loop"
    /\ ret = None
    /\ exc = ""
    /\ NoGenerator
    /\ NoConsensus
    /\ NoFeatures
    /\ NoFields
    /\ NoBatches
    /\ NoMajority

joins_first(loc, read) == loc = <<>> \/ overlaps(loc[1], read)

joins(loc, read) == loc = <<>> \/ overlaps(loc[Len(loc)], read)

yield_drops_read(loc, read) == <<>>

new_locus(loc, read) == <<read>>

LociPull ==
    /\ pc = "loop"
    /\ consumed < Len(reads)
    /\ LET read == reads[consumed + 1]
       IN  /\ consumed' = consumed + 1
           /\ IF joins(locus, read)
              THEN /\ locus' = Append(locus, read)
                   /\ yielded' = yielded
              ELSE /\ yielded' = Append(yielded, locus)
                   /\ locus' = new_locus(locus, read)
    /\ UNCHANGED <<reads, pc, ret, exc, dotted, all_nucleotides,
                   consensus_sequence, nucleotides, cutoff,
                   features, fields, batches>>

LociExhaust ==
    /\ pc = "loop"
    /\ consumed = Len(reads)
    /\ yielded' = Append(yielded, locus)
    /\ pc' = "done"
    /\ UNCHANGED <<reads, ret, exc, consumed, locus, dotted, all_nucleotides,
                   consensus_sequence, nucleotides, cutoff,
                   features, fields, batches>>

NextLoci == LociPull \/ LociExhaust

SpecLoci == InitLoci /\ [][NextLoci]_vars

-----------------------------------------------------------------------------
(* majority called on drawn inputs *)

VoteSymbols == {"A", "C", "N", "."}

Cutoffs == {<<0, 1>>, <<1, 4>>, <<1, 2>>, <<3, 4>>, <<1, 1>>}

InitMajority ==
    /\ nucleotides \in SeqsUpTo(VoteSymbols, MaxVotes)
    /\ cutoff \in Cutoffs
    /\ reads = <<>>
    /\ pc = "start"
    /\ ret = None
    /\ exc = ""
    /\ NoGenerator
    /\ NoConsensus
    /\ NoFeatures
    /\ NoFields
    /\ NoBatches

CallMajority ==
    /\ pc = "start"
    /\ ret' = majority(nucleotides, cutoff)
    /\ pc' = "majority"
    /\ UNCHANGED <<reads, exc, consumed, locus, yielded, dotted,
                   all_nucleotides, consensus_sequence, nucleotides, cutoff,
                   features, fields, batches>>

NextMajority == CallMajority

SpecMajority == InitMajority /\ [][NextMajority]_vars

-----------------------------------------------------------------------------
(* consensus.  Inputs: one read with any operation list and any sequence,  *)
(* a read of Match operations under any cutoff, or a group of reads whose  *)
(* sequence has the length its cigar consumes.  Position 0 is an unmapped  *)
(* read.                                                                   *)

Bases == {"A", "C"}

Ops == {<<n, o>> : n \in 1..MaxOpLen, o \in {"M", "I", "D"}}

Cigars == SeqsUpTo(Ops, MaxOps)

SingleReads ==
    {[pos |-> p, cigar |-> c, seq |-> s] :
        p \in {0, 1}, c \in Cigars, s \in SeqsUpTo(Bases, MaxSeqLen)}

MatchReads ==
    {[pos |-> 1, cigar |-> << <<Len(s), "M">> >>, seq |-> s] :
        s \in SeqsUpTo(Bases, MaxSeqLen) \ {<<>>}}

GroupCigars ==
    { << <<1, "M">> >>,
      << <<2, "M">> >>,
      << <<1, "M">>, <<1, "D">>, <<1, "M">> >>,
      << <<1, "M">>, <<1, "I">>, <<1, "M">> >>,
      << <<1, "I">>, <<1, "M">> >> }

GroupReads ==
    {[pos |-> p, cigar |-> c, seq |-> FillSeq(QueryLen(c), b)] :
        p \in 0..MaxShift, c \in GroupCigars, b \in Bases}

ConsensusInputs ==
    ([1..1 -> SingleReads] \X {DefaultCutoff})
    \cup ([1..1 -> MatchReads] \X Cutoffs)
    \cup (SeqsUpTo(GroupReads, MaxGroup) \X {DefaultCutoff})

InitConsensus ==
    /\ \E input \in ConsensusInputs :
           /\ reads = input[1]
           /\ cutoff = input[2]
    /\ pc = "start"
    /\ ret = None
    /\ exc = ""
    /\ nucleotides = <<>>
    /\ NoGenerator
    /\ NoConsensus
    /\ NoFeatures
    /\ NoFields
    /\ NoBatches

ConsensusDotIndels ==
    /\ pc = "start"
    /\ dotted' = dot_indels(reads)
    /\ pc' = "collect"
    /\ UNCHANGED <<reads, ret, exc, consumed, locus, yielded, all_nucleotides,
                   consensus_sequence, nucleotides, cutoff,
                   features, fields, batches>>

is_unmapped_never(pos) == FALSE

is_unmapped(pos) == pos = 0

ConsensusCollect ==
    /\ pc = "collect"
    /\ consumed < Len(dotted)
    /\ LET read == dotted[consumed + 1]
           seq == read[1]
           pos == read[3]
       IN  IF is_unmapped(pos)
           THEN /\ exc' = "UnmappedReadError"
                /\ pc' = "raised"
                /\ all_nucleotides' = <<>>
                /\ UNCHANGED consumed
           ELSE /\ all_nucleotides' = add_read(all_nucleotides, seq, pos)
                /\ consumed' = consumed + 1
                /\ UNCHANGED <<exc, pc>>
    /\ UNCHANGED <<reads, ret, locus, yielded, dotted, consensus_sequence,
                   nucleotides, cutoff,
                   features, fields, batches>>

ConsensusVote ==
    /\ pc = "collect"
    /\ consumed = Len(dotted)
    /\ IF DOMAIN all_nucleotides = {}
       THEN /\ exc' = "ValueError"
            /\ pc' = "raised"
            /\ UNCHANGED consensus_sequence
       ELSE /\ consensus_sequence' = vote(all_nucleotides, cutoff)
            /\ pc' = "join"
            /\ UNCHANGED exc
    /\ UNCHANGED <<reads, ret, consumed, locus, yielded, dotted,
                   all_nucleotides, nucleotides, cutoff,
                   features, fields, batches>>

ConsensusReturn ==
    /\ pc = "join"
    /\ ret' = strip_dots(consensus_sequence)
    /\ pc' = "done"
    /\ UNCHANGED <<reads, exc, consumed, locus, yielded, dotted,
                   all_nucleotides, consensus_sequence, nucleotides, cutoff,
                   features, fields, batches>>

NextConsensus ==
    ConsensusDotIndels \/ ConsensusCollect \/ ConsensusVote \/ ConsensusReturn

SpecConsensus == InitConsensus /\ [][NextConsensus]_vars

-----------------------------------------------------------------------------
(* in_features.  A Feature is the record [start, end]: the fields the scan  *)
(* reads.  The features are drawn in ascending order of start, each with    *)
(* start <= end, as a sorted annotation supplies them.                      *)

stops_scan_at_first(f, r0, r1) == f.start > r0

stops_scan(f, r0, r1) == f.start > r1

RECURSIVE in_features_loop(_, _, _)
in_features_loop(fs, r0, r1) ==
    IF fs = <<>> THEN FALSE
    ELSE LET f == Head(fs)
         IN  IF (f.start <= r0 /\ r0 <= f.end) \/ (f.start <= r1 /\ r1 <= f.end)
             THEN TRUE
             ELSE IF stops_scan(f, r0, r1) THEN FALSE
             ELSE in_features_loop(Tail(fs), r0, r1)

in_features(rs, fs) ==
    LET c == coverage(rs)
    IN  in_features_loop(fs, c[1], c[2])

Features == {[start |-> s, end |-> e] : s \in 1..MaxPos, e \in 1..MaxPos}

ValidFeatures == {f \in Features : f.start <= f.end}

RECURSIVE SortedFeatures(_)
SortedFeatures(n) ==
    IF n = 0 THEN {<<>>}
    ELSE LET shorter == SortedFeatures(n - 1)
         IN  shorter
             \cup UNION {{Append(s, f) :
                             f \in {g \in ValidFeatures :
                                       s = <<>> \/ s[Len(s)].start <= g.start}} :
                         s \in {t \in shorter : Len(t) = n - 1}}

InitFeatures ==
    /\ reads \in SortedStreams(MaxGroup)
    /\ features \in SortedFeatures(MaxFeatures)
    /\ pc = "start"
    /\ ret = None
    /\ exc = ""
    /\ NoGenerator
    /\ NoConsensus
    /\ NoMajority
    /\ NoFields
    /\ NoBatches

CallInFeatures ==
    /\ pc = "start"
    /\ ret' = in_features(reads, features)
    /\ pc' = "in_features"
    /\ UNCHANGED <<reads, exc, consumed, locus, yielded, dotted,
                   all_nucleotides, consensus_sequence, nucleotides, cutoff,
                   features, fields, batches>>

NextFeatures == CallInFeatures

SpecFeatures == InitFeatures /\ [][NextFeatures]_vars

-----------------------------------------------------------------------------
(* Read.__init__ and Read.__str__ on the text of the POS and CIGAR fields. *)
(* A text is a sequence of one-character strings.                          *)

Digits == {"0", "1", "2", "3", "4", "5", "6", "7", "8", "9"}

DigitValue(c) ==
    CASE c = "0" -> 0 [] c = "1" -> 1 [] c = "2" -> 2 [] c = "3" -> 3
      [] c = "4" -> 4 [] c = "5" -> 5 [] c = "6" -> 6 [] c = "7" -> 7
      [] c = "8" -> 8 [] c = "9" -> 9

DigitChar(d) == <<"0", "1", "2", "3", "4", "5", "6", "7", "8", "9">>[d + 1]

(* int(text) raises ValueError unless the text is a decimal numeral; the   *)
(* texts drawn carry no sign, blank or underscore.                         *)
is_numeral(text) ==
    text # <<>> /\ \A k \in 1..Len(text) : text[k] \in Digits

RECURSIVE int(_)
int(text) ==
    IF text = <<>> THEN 0
    ELSE 10 * int(SubSeq(text, 1, Len(text) - 1)) + DigitValue(text[Len(text)])

RECURSIVE str(_)
str(n) ==
    IF n < 10 THEN <<DigitChar(n)>>
    ELSE Append(str(n \div 10), DigitChar(n % 10))

(* re.findall(r'(\d+)(\D)', text): the matches from left to right, each a  *)
(* maximal run of digits and the character after it; `run` is the run of   *)
(* digits read so far.  A run that ends the text matches nothing.          *)
RECURSIVE findall(_, _)
findall(text, run) ==
    IF text = <<>> THEN <<>>
    ELSE IF Head(text) \in Digits
         THEN findall(Tail(text), Append(run, Head(text)))
         ELSE IF run = <<>> THEN findall(Tail(text), <<>>)
         ELSE << <<run, Head(text)>> >> \o findall(Tail(text), <<>>)

read_cigar(cigar) ==
    LET found == findall(cigar, <<>>)
    IN  [k \in 1..Len(found) |-> <<int(found[k][1]), found[k][2]>>]

RECURSIVE join_cigar(_)
join_cigar(cigar) ==
    IF cigar = <<>> THEN <<>>
    ELSE str(Head(cigar)[1]) \o <<Head(cigar)[2]>> \o join_cigar(Tail(cigar))

print_cigar_no_star(cigar) == join_cigar(cigar)

print_cigar(cigar) ==
    IF cigar = <<>> THEN <<"*">> ELSE join_cigar(cigar)

PosChars == {"0", "1", "M"}

CigarChars == {"0", "1", "2", "M", "*"}

FieldTexts ==
    SeqsUpTo(PosChars, MaxPosText) \X SeqsUpTo(CigarChars, MaxCigarText)

InitParse ==
    /\ fields \in FieldTexts
    /\ reads = <<>>
    /\ pc = "start"
    /\ ret = None
    /\ exc = ""
    /\ NoGenerator
    /\ NoConsensus
    /\ NoMajority
    /\ NoFeatures
    /\ NoBatches

ConstructRead ==
    /\ pc = "start"
    /\ IF is_numeral(fields[1])
       THEN /\ reads' = <<[pos |-> int(fields[1]),
                           cigar |-> read_cigar(fields[2]),
                           seq |-> <<>>]>>
            /\ pc' = "constructed"
            /\ UNCHANGED exc
       ELSE /\ exc' = "ValueError"
            /\ pc' = "raised"
            /\ UNCHANGED reads
    /\ UNCHANGED <<ret, consumed, locus, yielded, dotted,
                   all_nucleotides, consensus_sequence, nucleotides, cutoff,
                   features, fields, batches>>

PrintRead ==
    /\ pc = "constructed"
    /\ ret' = <<str(reads[1].pos), print_cigar(reads[1].cigar)>>
    /\ pc' = "printed"
    /\ UNCHANGED <<reads, exc, consumed, locus, yielded, dotted,
                   all_nucleotides, consensus_sequence, nucleotides, cutoff,
                   features, fields, batches>>

NextParse == ConstructRead \/ PrintRead

SpecParse == InitParse /\ [][NextParse]_vars

-----------------------------------------------------------------------------
(* make_dot_queue and dot_indels called on a drawn group of reads.  The    *)
(* value of the first call is the list of the queues dot_indels builds,    *)
(* one per read of the group.                                              *)

strip_reads(rs) == [k \in 1..Len(rs) |-> <<rs[k].seq, rs[k].cigar, rs[k].pos>>]

InitDots ==
    /\ reads \in SeqsUpTo(GroupReads, MaxGroup)
    /\ pc = "start"
    /\ ret = None
    /\ exc = ""
    /\ NoGenerator
    /\ NoConsensus
    /\ NoMajority
    /\ NoFeatures
    /\ NoFields
    /\ NoBatches

CallMakeDotQueue ==
    /\ pc = "start"
    /\ ret' = [k \in 1..Len(reads) |->
                  make_dot_queue(strip_reads(reads)[k], strip_reads(reads))]
    /\ pc' = "make_dot_queue"
    /\ UNCHANGED <<reads, exc, consumed, locus, yielded, dotted,
                   all_nucleotides, consensus_sequence, nucleotides, cutoff,
                   features, fields, batches>>

CallDotIndels ==
    /\ pc = "start"
    /\ ret' = dot_indels(reads)
    /\ pc' = "dot_indels"
    /\ UNCHANGED <<reads, exc, consumed, locus, yielded, dotted,
                   all_nucleotides, consensus_sequence, nucleotides, cutoff,
                   features, fields, batches>>

NextDots == CallMakeDotQueue \/ CallDotIndels

SpecDots == InitDots /\ [][NextDots]_vars

-----------------------------------------------------------------------------
(* Alignment.collect_reads and Alignment.filter_consecutive_reads.         *)
(* self.reads is one iterator shared by every generator: `consumed` is the *)
(* number of reads taken from it.  A batch is a generator object made by   *)
(* filter_consecutive_reads: its state ("new" before its first next(),     *)
(* "running" while suspended at a yield, "done" once returned, "raised"    *)
(* once it has raised), its local test_value, and the stream indices of    *)
(* the reads it has yielded.  The function applied is the read's position. *)

function(read) == read.pos

CollectReads ==
    {[pos |-> p, cigar |-> << <<1, "M">> >>, seq |-> <<"A">>] : p \in 1..MaxKey}

InitCollect ==
    /\ reads \in SeqsUpTo(CollectReads, MaxStream)
    /\ batches = <<>>
    /\ consumed = 0
    /\ locus = <<>>
    /\ yielded = <<>>
    /\ pc = "collect"
    /\ ret = None
    /\ exc = ""
    /\ NoConsensus
    /\ NoMajority
    /\ NoFeatures
    /\ NoFields

(* next() on the generator collect_reads returned: one turn of `while True` *)
CollectNext ==
    /\ pc = "collect"
    /\ Len(batches) < MaxBatches
    /\ batches' = Append(batches,
                         [state |-> "new", test_value |-> None, out |-> <<>>])
    /\ UNCHANGED <<reads, pc, ret, exc, consumed, locus, yielded, dotted,
                   all_nucleotides, consensus_sequence, nucleotides, cutoff,
                   features, fields>>

(* The first next() on a batch: first_read = next(reads), then the first   *)
(* yield.  On an exhausted stream next(reads) raises StopIteration inside  *)
(* the generator, which ends the generator or, under PEP 479, is turned    *)
(* into RuntimeError.                                                      *)
BatchFirst(b) ==
    /\ batches[b].state = "new"
    /\ IF consumed < Len(reads)
       THEN /\ consumed' = consumed + 1
            /\ batches' = [batches EXCEPT ![b] =
                              [state |-> "running",
                               test_value |-> function(reads[consumed + 1]),
                               out |-> <<consumed + 1>>]]
       ELSE /\ \E outcome \in {"done", "raised"} :
                   batches' = [batches EXCEPT ![b].state = outcome]
            /\ UNCHANGED consumed

keeps(read, test_value) == function(read) = test_value

(* A later next() on a batch: the for loop takes reads from the stream     *)
(* until one passes the test, which it yields, or the stream ends.         *)
BatchLoop(b) ==
    /\ batches[b].state = "running"
    /\ LET kept == {j \in (consumed + 1)..Len(reads) :
                       keeps(reads[j], batches[b].test_value)}
       IN  IF kept = {}
           THEN /\ consumed' = Len(reads)
                /\ batches' = [batches EXCEPT ![b].state = "done"]
           ELSE /\ consumed' = SetMin(kept)
                /\ batches' = [batches EXCEPT ![b].out = Append(@, SetMin(kept))]

BatchNext ==
    /\ pc = "collect"
    /\ \E b \in 1..Len(batches) : BatchFirst(b) \/ BatchLoop(b)
    /\ UNCHANGED <<reads, pc, ret, exc, locus, yielded, dotted,
                   all_nucleotides, consensus_sequence, nucleotides, cutoff,
                   features, fields>>

NextCollect == CollectNext \/ BatchNext

SpecCollect == InitCollect /\ [][NextCollect]_vars

-----------------------------------------------------------------------------
(* Properties *)

Last(s) == s[Len(s)]

Perms(n) == {f \in [1..n -> 1..n] : \A i, j \in 1..n : i # j => f[i] # f[j]}

Permuted(rs, f) == [k \in 1..Len(rs) |-> rs[f[k]]]

Mapped(read) == read.pos # 0

BothValid ==
    /\ Len(reads) = 2
    /\ Mapped(reads[1]) /\ ValidRange(reads[1])
    /\ Mapped(reads[2]) /\ ValidRange(reads[2])

(* C1: overlaps is symmetric: for reads a, b with valid covered ranges     *)
(* (first <= last), overlaps(a, b) = overlaps(b, a).                       *)
C1_OverlapsSymmetric ==
    (pc = "overlaps" /\ BothValid)
        => (ret <=> overlaps(reads[2], reads[1]))

(* C2: for two reads with valid covered ranges, overlaps returns TRUE      *)
(* exactly when the two inclusive covered ranges share at least one base.  *)
C2_OverlapsIffShareBase ==
    (pc = "overlaps" /\ BothValid)
        => (ret <=> (Covered(reads[1]) \cap Covered(reads[2]) # {}))

(* C3: on a finite position-sorted stream expressed_loci pulls each read   *)
(* once, in stream order; the groups yielded so far followed by the group  *)
(* being built are the reads pulled so far; it yields at most one group    *)
(* per read (one for the empty stream) and then is exhausted, and the      *)
(* concatenation of all yielded groups is the stream.                      *)
C3_LociPartitionStream ==
    /\ consumed \in 0..Len(reads)
    /\ Len(yielded) <= Max2(Len(reads), 1)
    /\ pc \in {"loop", "done"}
    /\ pc = "loop" => Concat(yielded) \o locus = SubSeq(reads, 1, consumed)
    /\ pc = "done" => /\ consumed = Len(reads)
                      /\ Concat(yielded) = reads

C3_Witness ==
    /\ pc = "done"
    /\ Len(reads) = MaxStream
    /\ Len(yielded) = 2
    /\ Len(yielded[1]) = 2

(* C4: in every group each read but the first overlaps the read before it  *)
(* in the group, and the first read of a group does not overlap the last   *)
(* read of the group yielded before it: a read is tested against the last  *)
(* read added only.                                                        *)
ChainedGroup(g) == \A i \in 2..Len(g) : overlaps(g[i - 1], g[i])

C4_LociChainedOnLastRead ==
    /\ ChainedGroup(locus)
    /\ \A k \in 1..Len(yielded) : ChainedGroup(yielded[k])
    /\ \A k \in 1..(Len(yielded) - 1) :
           ~ overlaps(Last(yielded[k]), yielded[k + 1][1])
    /\ (pc = "loop" /\ yielded # <<>>)
           => ~ overlaps(Last(Last(yielded)), locus[1])

C4_Witness ==
    /\ pc = "done"
    /\ Len(yielded) = 2
    /\ Len(yielded[1]) = 3
    /\ ~ overlaps(yielded[1][1], yielded[1][3])
    /\ \A k \in 1..Len(reads) : Mapped(reads[k]) /\ ValidRange(reads[k])

(* C5: if any read given to consensus has position 0, at any index and     *)
(* whatever the other reads are, consensus raises UnmappedReadError and    *)
(* returns nothing: it never votes, joins or returns a sequence, and while *)
(* it collects bases an unmapped read is still ahead in its loop.          *)
HasUnmapped == \E k \in 1..Len(reads) : reads[k].pos = 0

C5_UnmappedRaises ==
    HasUnmapped =>
        /\ pc \in {"start", "collect", "raised"}
        /\ ret = None
        /\ consensus_sequence = <<>>
        /\ pc = "raised" => exc = "UnmappedReadError" /\ all_nucleotides = <<>>
        /\ pc # "raised" => exc = ""
        /\ pc = "collect" =>
               \E k \in (consumed + 1)..Len(dotted) : dotted[k][3] = 0

C5_Witness ==
    /\ pc = "raised"
    /\ exc = "UnmappedReadError"
    /\ Len(reads) = 2
    /\ reads[1].pos # 0
    /\ reads[2].pos = 0

(* C6: for a single mapped read (position # 0, non-empty sequence) with    *)
(* any operation list, consensus with cutoff 0.5 raises nothing and        *)
(* returns the read's sequence with the gap markers removed.               *)
HasOp(cigar, o) == \E k \in 1..Len(cigar) : cigar[k][2] = o

SingleMapped ==
    /\ Len(reads) = 1
    /\ reads[1].pos # 0
    /\ reads[1].seq # <<>>
    /\ cutoff = DefaultCutoff

C6_SingleReadConsensus ==
    SingleMapped =>
        /\ pc # "raised"
        /\ exc = ""
        /\ pc = "done" => ret = SelectSeq(reads[1].seq, IsBase)

C6_Witness ==
    /\ SingleMapped
    /\ pc = "done"
    /\ HasOp(reads[1].cigar, "D")
    /\ HasOp(reads[1].cigar, "I")
    /\ dotted[1][1] # reads[1].seq
    /\ ret = reads[1].seq

(* C7: majority returns the first base, in the given order, whose count    *)
(* divided by the number of bases is strictly above the cutoff, and "N"    *)
(* when there is none; with cutoff 0.5 a column in which no base is held   *)
(* by more than half of the votes gives "N".                               *)
Exceeding ==
    {k \in 1..Len(nucleotides) :
        Count(nucleotides, nucleotides[k]) * cutoff[2]
            > cutoff[1] * Len(nucleotides)}

C7_MajorityFirstAboveCutoff ==
    pc = "majority" =>
        /\ Exceeding # {} => ret = nucleotides[SetMin(Exceeding)]
        /\ Exceeding = {} => ret = "N"
        /\ (cutoff = DefaultCutoff
            /\ \A b \in VoteSymbols :
                   2 * Count(nucleotides, b) <= Len(nucleotides))
               => ret = "N"

C7_Witness ==
    /\ pc = "majority"
    /\ cutoff = DefaultCutoff
    /\ nucleotides = <<"A", "A", "C", "C">>
    /\ ret = "N"

(* C8: consensus makes one vote column for every position from the lowest  *)
(* to the highest position a read contributes to, in ascending order; the  *)
(* column of a position holds the vote over the bases the reads put there, *)
(* in read order, and a position no read contributes to gives "N", which   *)
(* stays in the returned sequence.                                         *)
Contributed ==
    UNION {dotted[k][3] .. (dotted[k][3] + Len(dotted[k][1]) - 1) :
              k \in 1..Len(dotted)}

RECURSIVE BasesAt(_, _)
BasesAt(position, k) ==
    IF k = 0 THEN <<>>
    ELSE LET seq == dotted[k][1]
             pos == dotted[k][3]
         IN  BasesAt(position, k - 1)
             \o (IF position \in pos..(pos + Len(seq) - 1)
                 THEN <<seq[position - pos + 1]>>
                 ELSE <<>>)

C8_OneColumnPerPosition ==
    pc \in {"join", "done"} =>
        LET lo == SetMin(Contributed)
            hi == SetMax(Contributed)
            cols == consensus_sequence
            kept(p) == Cardinality({q \in lo..p : cols[q - lo + 1] # "."})
        IN  /\ Len(cols) = hi - lo + 1
            /\ \A p \in lo..hi :
                   /\ p \in Contributed =>
                          cols[p - lo + 1]
                              = majority(BasesAt(p, Len(dotted)), cutoff)
                   /\ p \notin Contributed => cols[p - lo + 1] = "N"
                   /\ (pc = "done" /\ p \notin Contributed)
                          => ret[kept(p)] = "N"

C8_Witness ==
    /\ pc = "done"
    /\ Len(reads) = 2
    /\ \E p \in SetMin(Contributed)..SetMax(Contributed) : p \notin Contributed
    /\ \E k \in 1..Len(reads) : HasOp(reads[k].cigar, "D")

(* C9, as stated: the length of the consensus of mapped reads is           *)
(* (maximum lastBase) - (minimum firstBase) + 1 over the covered ranges    *)
(* position .. position + sum of Match lengths - 1, minus the number of    *)
(* gap-marker columns removed, also when reads carry Insertion operations. *)
GapColumns ==
    Cardinality({k \in 1..Len(consensus_sequence) :
                    consensus_sequence[k] = "."})

FirstBases == {get_covered_range(reads[k])[1] : k \in 1..Len(reads)}

LastBases == {get_covered_range(reads[k])[2] : k \in 1..Len(reads)}

WellFormed(read) ==
    /\ Mapped(read)
    /\ ValidRange(read)
    /\ Len(read.seq) = QueryLen(read.cigar)

MatchOnly(read) ==
    /\ \A k \in 1..Len(read.cigar) : read.cigar[k][2] = "M"
    /\ Len(read.seq) = SumMatch(read.cigar)

C10_CoverageMinMax ==
    pc = "coverage" =>
        /\ reads = <<>> => ret = <<0, 0>>
        /\ reads # <<>> => ret = <<SetMin(FirstBases), SetMax(LastBases)>>
        /\ \A f \in Perms(Len(reads)) : coverage(Permuted(reads, f)) = ret

C10_Witness ==
    /\ pc = "coverage"
    /\ Len(reads) = MaxReads
    /\ ret[1] < get_covered_range(reads[1])[1]
    /\ ret[2] > get_covered_range(reads[1])[2]
    /\ ret[1] < get_covered_range(reads[2])[1]

Contains(f, p) == f.start <= p /\ p <= f.end

AllMapped == \A k \in 1..Len(reads) : Mapped(reads[k])

C12_InFeaturesIffReadSharesBase ==
    (pc = "in_features" /\ AllMapped) =>
        (ret = TRUE <=>
            \E k \in 1..Len(reads), j \in 1..Len(features) :
                Covered(reads[k]) \cap (features[j].start .. features[j].end)
                    # {})

RECURSIVE IsTokens(_, _)
IsTokens(text, inrun) ==
    IF text = <<>> THEN ~inrun
    ELSE IF Head(text) \in Digits THEN IsTokens(Tail(text), TRUE)
    ELSE inrun /\ IsTokens(Tail(text), FALSE)

TokenText(text) == text # <<>> /\ IsTokens(text, FALSE)

NoLeadingZero(text) ==
    \A k \in 1..Len(text) :
        (text[k] = "0" /\ (k = 1 \/ text[k - 1] \notin Digits))
            => (k < Len(text) /\ text[k + 1] \notin Digits)

(* C13, as stated: for every CIGAR text s that is "*" or a concatenation   *)
(* of tokens (decimal length)(one non-digit kind),                         *)
(* print_cigar(read_cigar(s)) = s; read_cigar("*") is the empty list,      *)
(* printed as "*".                                                         *)
C13_CigarRoundTrip ==
    pc = "printed" =>
        /\ (fields[2] = <<"*">> \/ TokenText(fields[2])) => ret[2] = fields[2]
        /\ fields[2] = <<"*">> => reads[1].cigar = <<>>

(* C13, amended: print_cigar(read_cigar(s)) = s exactly when s is "*" or a *)
(* non-empty concatenation of tokens whose lengths are written without     *)
(* leading zeros; read_cigar("*") is the empty list, printed as "*".  A    *)
(* length written with leading zeros is printed without them.              *)
C13_CanonicalCigarRoundTrip ==
    pc = "printed" =>
        /\ ret[2] = fields[2]
              <=> \/ fields[2] = <<"*">>
                  \/ TokenText(fields[2]) /\ NoLeadingZero(fields[2])
        /\ fields[2] = <<"*">> => reads[1].cigar = <<>>
        /\ TokenText(fields[2]) =>
              /\ read_cigar(ret[2]) = reads[1].cigar
              /\ Len(ret[2]) <= Len(fields[2])

C13_Witness ==
    /\ pc = "printed"
    /\ Len(reads[1].cigar) = 2
    /\ reads[1].cigar[1][2] # reads[1].cigar[2][2]
    /\ ret[2] = fields[2]

(* C14: constructing a Read from a malformed field fails at once with a    *)
(* value error, both for a position that is not an integer and for a CIGAR *)
(* that is neither "*" nor a sequence of tokens.                           *)
C14_MalformedFieldRaises ==
    (pc # "start" /\ (\/ ~is_numeral(fields[1])
                      \/ fields[2] # <<"*">> /\ ~IsTokens(fields[2], FALSE)))
        => (exc = "ValueError" /\ reads = <<>>)

(* C15: a read with position 0 (unmapped) never contributes a covered      *)
(* range to coverage or overlaps (nor, through them, to expressed_loci or  *)
(* in_features): a call given such a read raises and returns nothing.      *)
C15_UnmappedRejected ==
    (pc \in {"coverage", "overlaps"} /\ ~AllMapped)
        => (exc # "" /\ ret = None)

QueueOfClaim(rs, k) ==
    Concat([j \in 1..Len(rs) |->
               IF j = k
               THEN own_entries(convert_indecies(rs[j].cigar))
               ELSE other_entries(convert_indecies(rs[j].cigar),
                                  rs[j].pos - rs[k].pos)])

(* C16: for every read r of a group, the queue make_dot_queue builds for r *)
(* holds one entry (i + position(o) - position(r), n) per Insertion op of  *)
(* every other list element o, also of one with the sequence and position  *)
(* of r, and besides these only one entry (i, n) per deletion op of r      *)
(* itself.                                                                 *)
C16_QueueFromOthersInsertions ==
    (pc = "make_dot_queue" /\ AllMapped) =>
        \A k \in 1..Len(reads) : ret[k] = QueueOfClaim(reads, k)

DistinctKeys ==
    \A j, k \in 1..Len(reads) :
        (reads[j].seq = reads[k].seq /\ reads[j].pos = reads[k].pos) => j = k

(* C17: dot_indels does not depend on the order of the reads: for every    *)
(* permutation of the group each read gets the gapped sequence it gets in  *)
(* the original order, only the order of the triples changes.              *)
C17_DotIndelsOrderIndependent ==
    (pc = "dot_indels" /\ AllMapped /\ DistinctKeys) =>
        \A f \in Perms(Len(reads)) :
            dot_indels(Permuted(reads, f)) = Permuted(ret, f)

ShareBase(a, b) == Covered(a) \cap Covered(b) # {}

GroupEnds ==
    {Len(Concat(SubSeq(yielded, 1, j))) : j \in 1..Len(yielded)}

(* C18: for reads a, b with valid covered ranges and                       *)
(* a.firstBase <= b.firstBase, overlaps(a, b) is TRUE exactly when the two *)
(* inclusive ranges share a base; so on a position-sorted stream           *)
(* expressed_loci ends a group between two adjacent reads exactly when     *)
(* they share no base.                                                     *)
C18_OrderedOverlapsExact ==
    /\ pc = "done" =>
           \A i, j \in 1..Len(reads) :
               (/\ ValidRange(reads[i])
                /\ ValidRange(reads[j])
                /\ reads[i].pos <= reads[j].pos)
                   => (overlaps(reads[i], reads[j])
                          <=> ShareBase(reads[i], reads[j]))
    /\ LET ends == GroupEnds
       IN  \A k \in 2..consumed :
               (k - 1) \in ends <=> ~ShareBase(reads[k - 1], reads[k])

C18_Witness ==
    /\ pc = "done"
    /\ AllMapped
    /\ Len(yielded) = 2
    /\ Len(yielded[1]) = 2
    /\ get_covered_range(yielded[1][1])[1] = get_covered_range(yielded[1][2])[1]
    /\ get_covered_range(yielded[1][1])[2] < get_covered_range(yielded[1][2])[2]
    /\ ~ShareBase(yielded[1][2], yielded[2][1])

(* C19: every group yielded by expressed_loci holds at least one read, for *)
(* every finite stream, the empty stream included.                         *)
C19_NoEmptyGroup ==
    \A k \in 1..Len(yielded) : yielded[k] # <<>>

(* C20: every generator yielded by collect_reads yields a run of reads     *)
(* that are consecutive in the stream and have one value of the function:  *)
(* it stops at the first read whose value differs, and no read taken from  *)
(* the stream is lost, each being delivered by some generator.             *)
C20_ConsecutiveRunsNoLoss ==
    /\ \A b \in 1..Len(batches) :
           LET out == batches[b].out
           IN  /\ \A i \in 1..(Len(out) - 1) : out[i + 1] = out[i] + 1
               /\ \A i \in 1..Len(out) :
                      function(reads[out[i]]) = function(reads[out[1]])
    /\ \A j \in 1..consumed :
           \E b \in 1..Len(batches) :
               \E i \in 1..Len(batches[b].out) : batches[b].out[i] = j

====
